---- MODULE Spec2Model ----
(***************************************************************************)
(* Model of server.js: an Express gateway that authenticates against       *)
(* Salesforce (OAuth or raw session id), keeps the credentials in the      *)
(* express-session store, and bulk-loads an uploaded CSV file through the  *)
(* jsforce adapter.                                                         *)
(*                                                                          *)
(* Spec          : the HTTP routes, with up to MaxReqs requests in flight. *)
(* SpecParse     : the csv.parse 'data'/'end' handlers of /api/upload.     *)
(* SpecAggregate : the result aggregation of /api/upload.                  *)
(***************************************************************************)
EXTENDS Integers, Sequences, FiniteSets, TLC

\* ---------------------------------------------------------------- bounds
MaxReqs == 2      \* requests being handled at the same time
MaxTime == 1      \* last value Date.now() takes (the clock starts at 0)
MaxRows == 3      \* data rows of a CSV file (SpecParse)
MaxResults == 3   \* entries of an adapter result array (SpecAggregate)

Reqs == 1..MaxReqs

\* ------------------------------------------------------------ session data
\* The cookie of the one browser session the requests carry.
Sessions == {"s1"}

\* req.session.salesforce when it was never assigned (undefined).
Unset == [accessToken |-> "", instanceUrl |-> "", userInfo |-> "", authMethod |-> ""]

\* What conn.authorize(code) leaves on the connection.
OAuthToken == "tok-oauth"
OAuthInstance == "https://oauth.example"
UserInfo == "user-1"

\* Values a JSON body field takes: absent (undefined), empty, or a string.
Absent == "<undefined>"
SessionIds == {Absent, "", "sid-1"}
InstanceUrls == {Absent, "", "https://na1.example"}

\* JavaScript's !x for the values above.
Falsy(x) == x \in {Absent, ""}

\* Messages of the errors the adapter rejects with.
AdapterErrors == {"INVALID_SESSION_ID", "ECONNREFUSED"}

\* ---------------------------------------------------------------- files
\* file.originalname as a sequence of characters.
NameCsv == <<"a", ".", "c", "s", "v">>
NameTxt == <<"b", ".", "t", "x", "t">>
DotCsv == <<".", "c", "s", "v">>

\* String.prototype.endsWith
EndsWith(s, suffix) ==
  /\ Len(s) >= Len(suffix)
  /\ SubSeq(s, Len(s) - Len(suffix) + 1, Len(s)) = suffix

\* A CSV row as csv.parse emits it with columns:true : the columns in header
\* order, each a <<key, value>> pair.
\* Header names are sequences of characters, so that trimming is computed.
KeyName == <<"N", "a", "m", "e">>
KeyEmail == <<"E", "m", "a", "i", "l">>
RowFull == << <<KeyName, "Alice">>, <<KeyEmail, "a@x.com">> >>
RowPart == << <<KeyName, "">>, <<KeyEmail, "b@x.com">> >>
RowVoid == << <<KeyName, "">>, <<KeyEmail, "">> >>

\* File contents: the rows csv.parse emits, or a malformed file it rejects.
CsvGood == [wellFormed |-> TRUE, rows |-> <<RowFull, RowVoid, RowPart>>]
CsvVoid == [wellFormed |-> TRUE, rows |-> <<RowVoid>>]
CsvBad == [wellFormed |-> FALSE, rows |-> <<>>]
Contents == {CsvGood, CsvVoid, CsvBad}

\* The multipart file part of an upload request, or none.
NoUpload == [originalname |-> <<>>, mimetype |-> ""]
UploadParts ==
  [originalname : {NameCsv}, mimetype : {"text/csv", "text/plain"}]
    \cup [originalname : {NameTxt}, mimetype : {"text/plain"}]

\* req.file.path; NoFile when req.file is undefined.
NoFile == <<-1, <<>>>>

\* The form fields of an upload request: operation and externalIdField.
UploadBodies ==
  [operation : {"insert", "update", "merge"}, externalIdField : {Absent}]
    \cup [operation : {"upsert"}, externalIdField : {Absent, "", "Ext__c"}]

\* ------------------------------------------------------------ adapter data
\* One entry of what create/update/upsert resolve with.
Saved(i) == [id |-> i, success |-> TRUE, errors |-> <<>>]
Failed(i, e) == [id |-> i, success |-> FALSE, errors |-> <<e>>]
SaveResults == {Saved("001x"), Failed("003x", "DUPLICATE_VALUE"), Failed("004x", "REQUIRED_FIELD_MISSING")}

\* An adapter result: an array of entries, or a single entry that is no array.
NoEntry == [id |-> "", success |-> FALSE, errors |-> <<>>]
ArrayOf(items) == [isArray |-> TRUE, items |-> items, item |-> NoEntry]
Single(item) == [isArray |-> FALSE, items |-> <<>>, item |-> item]

\* The results the adapter resolves with in Spec.
AdapterResults ==
  {Single(Saved("001x")), ArrayOf(<<Saved("001x"), Failed("003x", "DUPLICATE_VALUE")>>)}

\* ------------------------------------------------------------- responses
NoSummary == [totalRecords |-> 0, successful |-> 0, failed |-> 0, errors |-> <<>>]
NoResponse ==
  [status |-> 0, error |-> "", authenticated |-> FALSE, authMethod |-> "",
   sessionId |-> "", summary |-> NoSummary]

\* res.status(code).json({ error: message })
ErrorJson(code, message) == [NoResponse EXCEPT !.status = code, !.error = message]
\* res.json(...) or res.redirect(...) without an error
OkJson(code) == [NoResponse EXCEPT !.status = code]

NotAuthenticated == "Not authenticated"
NoFileUploaded == "No file uploaded"
SessionFieldsRequired == "Session ID and Instance URL are required"
InvalidSession == "Invalid session ID or instance URL. Please check your credentials."
FetchObjectsFailed == "Failed to fetch Salesforce objects"
FetchFieldsFailed == "Failed to fetch object fields"
OnlyCsvAllowed == "Only CSV files are allowed"
NoValidRecords == "No valid records found in CSV file"
ExternalIdRequired == "External ID field is required for upsert operation"
InvalidOperation == "Invalid operation"
ParseFailure == "Invalid Record Length"
NoSuchFile == "ENOENT: no such file or directory"

\* ---------------------------------------------------------------- state
VARIABLES
  store,      \* session store: cookie -> req.session.salesforce
  now,        \* Date.now()
  disk,       \* uploads/ : the paths of the files that exist
  req,        \* request slots: the requests being handled, and their responses
  csvRows,    \* SpecParse: the rows csv.parse emits
  rowsDone,   \* SpecParse: how many 'data' events have fired
  batch,      \* SpecParse: the records array
  parsePc,    \* SpecParse: "data", "end" or "thrown"
  aggIn,      \* SpecAggregate: the records sent and the adapter's result
  aggOut,     \* SpecAggregate: the response summary, once computed
  aggPc       \* SpecAggregate: "dispatched" or "done"

vars == <<store, now, disk, req, csvRows, rowsDone, batch, parsePc, aggIn, aggOut, aggPc>>
httpVars == <<store, now, disk, req>>
parseVars == <<csvRows, rowsDone, batch, parsePc>>
aggVars == <<aggIn, aggOut, aggPc>>

NoBody ==
  [sessionId |-> Absent, instanceUrl |-> Absent, operation |-> Absent,
   externalIdField |-> Absent]

\* A free request slot.
Idle ==
  [route |-> "none", pc |-> "idle", sid |-> "", session |-> Unset, body |-> NoBody,
   file |-> NoFile, csvData |-> CsvBad, records |-> <<>>, calls |-> <<>>,
   thrown |-> "", res |-> NoResponse]

\* A slot takes a new request when it is free or its request was answered.
Free(r) == req[r].pc \in {"idle", "done"}

\* The request a slot receives: express-session has loaded the cookie's session.
Received(route, s) == [Idle EXCEPT !.route = route, !.sid = s, !.session = store[s]]

\* The response is sent: the request is over.
Answer(q, response) == [q EXCEPT !.pc = "done", !.res = response]

\* The adapter method is called and the handler awaits it.
Call(q, method) == [q EXCEPT !.pc = "awaiting", !.calls = Append(@, method)]

SetReq(r, q) == req' = [req EXCEPT ![r] = q]

\* Mutant of NotLoggedIn: the check is left out.
NotLoggedInNever(session) == FALSE

\* !req.session.salesforce
NotLoggedIn(session) == session = Unset

\* Mutant of Destroy: only sessions created by OAuth are destroyed.
DestroyOAuthOnly(st, s) ==
  IF st[s].authMethod = "oauth" THEN [st EXCEPT ![s] = Unset] ELSE st

\* req.session.destroy()
Destroy(st, s) == [st EXCEPT ![s] = Unset]

\* ------------------------------------------------------- the CSV ingestor
\* String.prototype.trim on a sequence of characters.
RECURSIVE TrimLeft(_)
TrimLeft(s) == IF s # <<>> /\ Head(s) = " " THEN TrimLeft(Tail(s)) ELSE s

RECURSIVE TrimRight(_)
TrimRight(s) ==
  IF s # <<>> /\ s[Len(s)] = " " THEN TrimRight(SubSeq(s, 1, Len(s) - 1)) ELSE s

Trim(s) == TrimRight(TrimLeft(s))

\* cleanRow[cleanKey] = value
Assign(obj, key, value) ==
  [k \in DOMAIN obj \cup {key} |-> IF k = key THEN value ELSE obj[k]]

\* The forEach over Object.keys(row): the columns from the i-th on.
RECURSIVE CleanFrom(_, _, _)
CleanFrom(row, i, cleanRow) ==
  IF i > Len(row) THEN cleanRow
  ELSE CleanFrom(row, i + 1,
         IF row[i][2] # "" THEN Assign(cleanRow, Trim(row[i][1]), row[i][2])
         ELSE cleanRow)

\* const cleanRow = {}; Object.keys(row).forEach(...)
CleanRow(row) == CleanFrom(row, 1, <<>>)

\* Mutant of OnData: the row is pushed without the length check.
OnDataKeepAll(records, row) == Append(records, CleanRow(row))

\* The 'data' handler: records after one more row.
OnData(records, row) ==
  IF Cardinality(DOMAIN CleanRow(row)) > 0 THEN Append(records, CleanRow(row))
  ELSE records

\* All 'data' events of a file, in order.
RECURSIVE ParseFrom(_, _, _)
ParseFrom(rows, i, records) ==
  IF i > Len(rows) THEN records ELSE ParseFrom(rows, i + 1, OnData(records, rows[i]))

ParseRows(rows) == ParseFrom(rows, 1, <<>>)

\* ------------------------------------------------- the result aggregation
\* Mutant of Normalize: a single entry is not wrapped.
NormalizeArrayOnly(result) == result.items

\* Array.isArray(result) ? result : [result]
Normalize(result) == IF result.isArray THEN result.items ELSE <<result.item>>

IsSuccess(r) == r.success
IsFailure(r) == ~r.success

\* failed.map(f => ({ id: f.id, errors: f.errors }))
ErrorEntries(failed) == [i \in 1..Len(failed) |-> [id |-> failed[i].id, errors |-> failed[i].errors]]

\* The body of the 200 response.
Aggregate(records, result) ==
  [totalRecords |-> Len(records),
   successful |-> Len(SelectSeq(Normalize(result), IsSuccess)),
   failed |-> Len(SelectSeq(Normalize(result), IsFailure)),
   errors |-> ErrorEntries(SelectSeq(Normalize(result), IsFailure))]

\* ------------------------------------------------------------ the uploads
\* multer's fileFilter
FileFilter(part) == part.mimetype = "text/csv" \/ EndsWith(part.originalname, DotCsv)

\* multer's filename: Date.now() + '-' + file.originalname
Filename(time, part) == <<time, part.originalname>>

\* multer's disk storage writes the file part to its path.
Stage(d, path) == d \cup {path}

\* fs.existsSync(path)
Exists(d, path) == path \in d

\* fs.unlinkSync(path) on a file that exists
Unlink(d, path) == d \ {path}

\* The catch block's cleanup: if (req.file && fs.existsSync(path)) unlinkSync
Cleanup(d, path) == IF path # NoFile /\ Exists(d, path) THEN Unlink(d, path) ELSE d

\* The catch block's response.
Caught(q, message) == Answer([q EXCEPT !.thrown = message], ErrorJson(500, message))

RecordCalls == {"create", "update", "upsert"}
IsRecordCall(m) == m \in RecordCalls

\* ------------------------------------------------------------ HTTP routes
Init ==
  /\ store = [s \in Sessions |-> Unset]
  /\ now = 0
  /\ disk = {}
  /\ req = [r \in Reqs |-> Idle]
  /\ csvRows = <<>>
  /\ rowsDone = 0
  /\ batch = <<>>
  /\ parsePc = "idle"
  /\ aggIn = [records |-> <<>>, result |-> ArrayOf(<<>>)]
  /\ aggOut = NoSummary
  /\ aggPc = "idle"

\* Time passes: Date.now() returns a later millisecond.
Tick ==
  /\ now < MaxTime
  /\ now' = now + 1
  /\ UNCHANGED <<store, disk, req, parseVars, aggVars>>

\* GET /api/auth/status
AuthStatus(r, s) ==
  /\ Free(r)
  /\ SetReq(r, Answer(Received("status", s),
       IF ~NotLoggedIn(store[s])
       THEN [OkJson(200) EXCEPT !.authenticated = TRUE, !.authMethod = store[s].authMethod]
       ELSE OkJson(200)))
  /\ UNCHANGED <<store, now, disk, parseVars, aggVars>>

\* POST /api/auth/logout
Logout(r, s) ==
  /\ Free(r)
  /\ store' = Destroy(store, s)
  /\ SetReq(r, Answer(Received("logout", s), OkJson(200)))
  /\ UNCHANGED <<now, disk, parseVars, aggVars>>

\* GET /api/auth/session-info
SessionInfo(r, s) ==
  /\ Free(r)
  /\ SetReq(r, Answer(Received("sessionInfo", s),
       IF NotLoggedIn(store[s]) THEN ErrorJson(401, NotAuthenticated)
       ELSE [OkJson(200) EXCEPT !.sessionId = store[s].accessToken,
                                !.authMethod = store[s].authMethod]))
  /\ UNCHANGED <<store, now, disk, parseVars, aggVars>>

\* A schema route up to its adapter call.
DescribeBegin(r, s, route, method) ==
  /\ Free(r)
  /\ SetReq(r, IF NotLoggedIn(store[s])
               THEN Answer(Received(route, s), ErrorJson(401, NotAuthenticated))
               ELSE Call(Received(route, s), method))
  /\ UNCHANGED <<store, now, disk, parseVars, aggVars>>

\* A schema route from its adapter call on: the list, or 500.
DescribeEnd(r, route, failure) ==
  /\ req[r].route = route
  /\ req[r].pc = "awaiting"
  /\ \/ SetReq(r, Answer(req[r], OkJson(200)))
     \/ SetReq(r, Answer(req[r], ErrorJson(500, failure)))
  /\ UNCHANGED <<store, now, disk, parseVars, aggVars>>

\* GET /api/salesforce/objects
ObjectsBegin(r, s) == DescribeBegin(r, s, "objects", "describeGlobal")
ObjectsEnd(r) == DescribeEnd(r, "objects", FetchObjectsFailed)

\* GET /api/salesforce/objects/:objectName/fields
FieldsBegin(r, s) == DescribeBegin(r, s, "fields", "describe")
FieldsEnd(r) == DescribeEnd(r, "fields", FetchFieldsFailed)

\* GET /oauth/callback up to conn.authorize(code)
OAuthBegin(r, s) ==
  /\ Free(r)
  /\ SetReq(r, Call(Received("oauth", s), "authorize"))
  /\ UNCHANGED <<store, now, disk, parseVars, aggVars>>

\* GET /oauth/callback from conn.authorize(code) on
OAuthEnd(r) ==
  /\ req[r].route = "oauth"
  /\ req[r].pc = "awaiting"
  /\ \/ /\ store' = [store EXCEPT ![req[r].sid] =
                       [accessToken |-> OAuthToken, instanceUrl |-> OAuthInstance,
                        userInfo |-> UserInfo, authMethod |-> "oauth"]]
        /\ SetReq(r, Answer(req[r], OkJson(302)))
     \/ /\ SetReq(r, Answer(req[r], ErrorJson(302, "auth=error")))
        /\ UNCHANGED store
  /\ UNCHANGED <<now, disk, parseVars, aggVars>>

\* Mutant of SessionFieldsMissing: && for ||.
SessionFieldsBothMissing(sessionId, instanceUrl) == Falsy(sessionId) /\ Falsy(instanceUrl)

\* The 400 check of POST /api/auth/session.
SessionFieldsMissing(sessionId, instanceUrl) == Falsy(sessionId) \/ Falsy(instanceUrl)

\* POST /api/auth/session up to conn.identity()
SessionAuthBegin(r, s, sessionId, instanceUrl) ==
  /\ Free(r)
  /\ LET q == [Received("authSession", s) EXCEPT
                 !.body.sessionId = sessionId, !.body.instanceUrl = instanceUrl]
     IN SetReq(r, IF SessionFieldsMissing(sessionId, instanceUrl)
                  THEN Answer(q, ErrorJson(400, SessionFieldsRequired))
                  ELSE Call(q, "identity"))
  /\ UNCHANGED <<store, now, disk, parseVars, aggVars>>

\* Mutant of SessionAuthFailure: the adapter's message is echoed.
SessionAuthFailureEchoed(e) == ErrorJson(401, e)

\* The response of POST /api/auth/session when conn.identity() rejects with e.
SessionAuthFailure(e) == ErrorJson(401, InvalidSession)

\* POST /api/auth/session from conn.identity() on
SessionAuthEnd(r) ==
  /\ req[r].route = "authSession"
  /\ req[r].pc = "awaiting"
  /\ \/ /\ store' = [store EXCEPT ![req[r].sid] =
                       [accessToken |-> req[r].body.sessionId,
                        instanceUrl |-> req[r].body.instanceUrl,
                        userInfo |-> UserInfo, authMethod |-> "session"]]
        /\ SetReq(r, Answer(req[r], OkJson(200)))
     \/ /\ \E e \in AdapterErrors :
             SetReq(r, Answer([req[r] EXCEPT !.thrown = e], SessionAuthFailure(e)))
        /\ UNCHANGED store
  /\ UNCHANGED <<now, disk, parseVars, aggVars>>

\* POST /api/upload, the middleware: the session is loaded and upload.single
\* stages the file part, or rejects it before storage.
UploadReceive(r, s, part) ==
  /\ Free(r)
  /\ IF part = NoUpload
     THEN /\ SetReq(r, [Received("upload", s) EXCEPT !.pc = "received"])
          /\ UNCHANGED disk
     ELSE IF FileFilter(part)
     THEN /\ disk' = Stage(disk, Filename(now, part))
          /\ SetReq(r, [Received("upload", s) EXCEPT
                          !.pc = "received", !.file = Filename(now, part)])
     ELSE /\ SetReq(r, Caught(Received("upload", s), OnlyCsvAllowed))
          /\ UNCHANGED disk
  /\ UNCHANGED <<store, now, parseVars, aggVars>>

\* What the 401 return does to the staged file: nothing.
RejectUnauthenticated(d, path) == d

\* POST /api/upload, the handler up to readFileSync. The content read is the
\* one multer wrote to the path last, for this request or for another one
\* staged at the same path: any of Contents.
UploadValidate(r, content) ==
  /\ req[r].route = "upload"
  /\ req[r].pc = "received"
  /\ IF NotLoggedIn(req[r].session)
     THEN /\ SetReq(r, Answer(req[r], ErrorJson(401, NotAuthenticated)))
          /\ disk' = RejectUnauthenticated(disk, req[r].file)
     ELSE IF req[r].file = NoFile
     THEN /\ SetReq(r, Answer(req[r], ErrorJson(400, NoFileUploaded)))
          /\ UNCHANGED disk
     ELSE IF ~Exists(disk, req[r].file)
     THEN /\ SetReq(r, Caught(req[r], NoSuchFile))
          /\ disk' = Cleanup(disk, req[r].file)
     ELSE /\ SetReq(r, [req[r] EXCEPT !.pc = "validated", !.csvData = content])
          /\ UNCHANGED disk
  /\ UNCHANGED <<store, now, parseVars, aggVars>>

\* POST /api/upload, csv.parse and the empty-batch check.
UploadParse(r) ==
  /\ req[r].route = "upload"
  /\ req[r].pc = "validated"
  /\ IF ~req[r].csvData.wellFormed
     THEN /\ SetReq(r, Caught(req[r], ParseFailure))
          /\ disk' = Cleanup(disk, req[r].file)
     ELSE IF Len(ParseRows(req[r].csvData.rows)) = 0
     THEN /\ SetReq(r, Caught(req[r], NoValidRecords))
          /\ disk' = Cleanup(disk, req[r].file)
     ELSE /\ SetReq(r, [req[r] EXCEPT !.pc = "parsed",
                                      !.records = ParseRows(req[r].csvData.rows)])
          /\ UNCHANGED disk
  /\ UNCHANGED <<store, now, parseVars, aggVars>>

\* Mutant of Dispatch: upsert without the externalIdField check.
DispatchUnchecked(operation, externalIdField) ==
  CASE operation = "insert" -> [call |-> "create", thrown |-> ""]
    [] operation = "update" -> [call |-> "update", thrown |-> ""]
    [] operation = "upsert" -> [call |-> "upsert", thrown |-> ""]
    [] OTHER -> [call |-> "", thrown |-> InvalidOperation]

\* switch (operation): the adapter method to call, or the message thrown.
Dispatch(operation, externalIdField) ==
  CASE operation = "insert" -> [call |-> "create", thrown |-> ""]
    [] operation = "update" -> [call |-> "update", thrown |-> ""]
    [] operation = "upsert" ->
         IF Falsy(externalIdField) THEN [call |-> "", thrown |-> ExternalIdRequired]
         ELSE [call |-> "upsert", thrown |-> ""]
    [] OTHER -> [call |-> "", thrown |-> InvalidOperation]

\* POST /api/upload, the switch up to the adapter call. The form fields are
\* drawn here, where the handler first uses them.
UploadDispatch(r, form) ==
  /\ req[r].route = "upload"
  /\ req[r].pc = "parsed"
  /\ LET d == Dispatch(form.operation, form.externalIdField)
         q == [req[r] EXCEPT !.body.operation = form.operation,
                             !.body.externalIdField = form.externalIdField]
     IN IF d.thrown # ""
        THEN /\ SetReq(r, Caught(q, d.thrown))
             /\ disk' = Cleanup(disk, req[r].file)
        ELSE /\ SetReq(r, [Call(q, d.call) EXCEPT !.pc = "dispatched"])
             /\ UNCHANGED disk
  /\ UNCHANGED <<store, now, parseVars, aggVars>>

\* Mutant of UploadFailed: the rejected call is dispatched again.
UploadRetried(q, e) == [q EXCEPT !.pc = "parsed", !.thrown = e]

\* POST /api/upload after the adapter rejected with e.
UploadFailed(q, e) == Caught(q, e)

\* POST /api/upload from the adapter call on.
UploadReturn(r) ==
  /\ req[r].route = "upload"
  /\ req[r].pc = "dispatched"
  /\ \/ \E e \in AdapterErrors :
          /\ SetReq(r, UploadFailed(req[r], e))
          /\ disk' = Cleanup(disk, req[r].file)
     \/ \E result \in AdapterResults :
          IF Exists(disk, req[r].file)
          THEN /\ disk' = Unlink(disk, req[r].file)
               /\ SetReq(r, Answer(req[r],
                    [OkJson(200) EXCEPT !.summary = Aggregate(req[r].records, result)]))
          ELSE /\ SetReq(r, Caught(req[r], NoSuchFile))
               /\ disk' = Cleanup(disk, req[r].file)
  /\ UNCHANGED <<store, now, parseVars, aggVars>>

Next ==
  \/ Tick
  \/ \E r \in Reqs, s \in Sessions :
       \/ AuthStatus(r, s)
       \/ Logout(r, s)
       \/ SessionInfo(r, s)
       \/ ObjectsBegin(r, s)
       \/ FieldsBegin(r, s)
       \/ OAuthBegin(r, s)
       \/ \E sessionId \in SessionIds, instanceUrl \in InstanceUrls :
            SessionAuthBegin(r, s, sessionId, instanceUrl)
       \/ \E part \in UploadParts \cup {NoUpload} : UploadReceive(r, s, part)
  \/ \E r \in Reqs :
       \/ ObjectsEnd(r)
       \/ FieldsEnd(r)
       \/ OAuthEnd(r)
       \/ SessionAuthEnd(r)
       \/ \E content \in Contents : UploadValidate(r, content)
       \/ UploadParse(r)
       \/ \E form \in UploadBodies : UploadDispatch(r, form)
       \/ UploadReturn(r)

Spec == Init /\ [][Next]_vars

\* ------------------------------------------------ SpecParse: the ingestor
\* Header names: one of them differs from another only by a leading blank,
\* which csv.parse keeps when the header is quoted.
KeyNamePadded == <<" ">> \o KeyName
Keys == {KeyName, KeyNamePadded, KeyEmail}
Values == {"", "x", "y"}

\* The header rows: one column, or two columns of different names.
Headers == {<<k>> : k \in Keys} \cup ({<<j, k>> : j, k \in Keys} \ {<<k, k>> : k \in Keys})

\* The rows of a file under header h: every row has h's columns, in h's order.
RowsOf(h) == {[i \in 1..Len(h) |-> <<h[i], v[i]>>] : v \in [1..Len(h) -> Values]}
FilesOf(h) == UNION {[1..n -> RowsOf(h)] : n \in 0..MaxRows}
CsvFiles == UNION {FilesOf(h) : h \in Headers}

InitParse ==
  /\ store = [s \in Sessions |-> Unset]
  /\ now = 0
  /\ disk = {}
  /\ req = [r \in Reqs |-> Idle]
  /\ csvRows \in CsvFiles
  /\ rowsDone = 0
  /\ batch = <<>>
  /\ parsePc = "data"
  /\ aggIn = [records |-> <<>>, result |-> ArrayOf(<<>>)]
  /\ aggOut = NoSummary
  /\ aggPc = "idle"

\* .on('data', row => ...)
DataEvent ==
  /\ parsePc = "data"
  /\ rowsDone < Len(csvRows)
  /\ batch' = OnData(batch, csvRows[rowsDone + 1])
  /\ rowsDone' = rowsDone + 1
  /\ UNCHANGED <<csvRows, parsePc, httpVars, aggVars>>

\* .on('end', resolve), then the empty-batch check
EndEvent ==
  /\ parsePc = "data"
  /\ rowsDone = Len(csvRows)
  /\ parsePc' = IF Len(batch) = 0 THEN "thrown" ELSE "parsed"
  /\ UNCHANGED <<csvRows, rowsDone, batch, httpVars, aggVars>>

NextParse == DataEvent \/ EndEvent

SpecParse == InitParse /\ [][NextParse]_vars

\* ------------------------------------------- SpecAggregate: the response
\* The batches sent to the adapter.
SentRecords == {CleanRow(RowFull), CleanRow(RowPart)}
SentBatches == UNION {[1..n -> SentRecords] : n \in 1..MaxRows}

\* What the adapter resolves with: an array, or one entry that is no array.
SaveEntries == SaveResults \cup {Saved("002x")}
SaveArrays == UNION {[1..n -> SaveEntries] : n \in 0..MaxResults}
SaveOutcomes == {ArrayOf(a) : a \in SaveArrays} \cup {Single(e) : e \in SaveEntries}

InitAggregate ==
  /\ store = [s \in Sessions |-> Unset]
  /\ now = 0
  /\ disk = {}
  /\ req = [r \in Reqs |-> Idle]
  /\ csvRows = <<>>
  /\ rowsDone = 0
  /\ batch = <<>>
  /\ parsePc = "idle"
  /\ aggIn \in [records : SentBatches, result : SaveOutcomes]
  /\ aggOut = NoSummary
  /\ aggPc = "dispatched"

\* The adapter resolved: the response body is computed.
Respond ==
  /\ aggPc = "dispatched"
  /\ aggOut' = Aggregate(aggIn.records, aggIn.result)
  /\ aggPc' = "done"
  /\ UNCHANGED <<aggIn, httpVars, parseVars>>

NextAggregate == Respond

SpecAggregate == InitAggregate /\ [][NextAggregate]_vars

\* ================================================================ claims

\* ------------------------------------------------------------------- C7
\* The columns of a row whose value is not empty.
NonEmptyCols(row) == {c \in 1..Len(row) : row[c][2] # ""}

\* The rows handled so far that have a non-empty field.
KeptRows == {i \in 1..rowsDone : NonEmptyCols(csvRows[i]) # {}}

\* The k-th of them, in source order.
KeptRow(k) == CHOOSE i \in KeptRows : Cardinality({j \in KeptRows : j < i}) = k - 1

\* The last non-empty column of a row whose header trims to key.
LastCol(row, key) ==
  CHOOSE c \in NonEmptyCols(row) :
    /\ Trim(row[c][1]) = key
    /\ \A d \in NonEmptyCols(row) : Trim(row[d][1]) = key => d <= c

\* C7 as stated: the batch holds, in source order, one record per row with a
\* non-empty field, and each record holds exactly that row's non-empty fields
\* (one field per non-empty column, under its trimmed header name); rows
\* without a non-empty field contribute nothing.
C7_RecordsHoldEveryNonEmptyField ==
  /\ Len(batch) = Cardinality(KeptRows)
  /\ \A k \in 1..Len(batch) :
       LET row == csvRows[KeptRow(k)]
       IN /\ Cardinality(DOMAIN batch[k]) = Cardinality(NonEmptyCols(row))
          /\ \A c \in NonEmptyCols(row) :
               /\ Trim(row[c][1]) \in DOMAIN batch[k]
               /\ batch[k][Trim(row[c][1])] = row[c][2]

\* C7 amended: of the rows csv.parse emits, the batch holds, in source order,
\* one record per row with a non-empty field; the record's keys are the
\* trimmed header names of that row's non-empty columns, no value is empty,
\* and each key holds the value of the last non-empty column whose header
\* trims to it; rows without a non-empty field contribute nothing.
C7_RecordsHoldTrimmedNonEmptyFields ==
  /\ Len(batch) = Cardinality(KeptRows)
  /\ \A k \in 1..Len(batch) :
       LET row == csvRows[KeptRow(k)]
       IN /\ DOMAIN batch[k] = {Trim(row[c][1]) : c \in NonEmptyCols(row)}
          /\ \A key \in DOMAIN batch[k] :
               /\ batch[k][key] # ""
               /\ batch[k][key] = row[LastCol(row, key)][2]

\* A parsed file with a dropped empty row, and a kept row in which two
\* non-empty columns trim to the same header name.
C7_Witness ==
  /\ parsePc = "parsed"
  /\ rowsDone = Len(csvRows)
  /\ \E i \in 1..Len(csvRows) : NonEmptyCols(csvRows[i]) = {}
  /\ \E i \in KeptRows : \E c, d \in NonEmptyCols(csvRows[i]) :
       /\ c < d
       /\ Trim(csvRows[i][c][1]) = Trim(csvRows[i][d][1])
       /\ csvRows[i][c][2] # csvRows[i][d][2]

\* ------------------------------------------------------------------- C8
\* The adapter's results as an array.
ResultList == IF aggIn.result.isArray THEN aggIn.result.items ELSE <<aggIn.result.item>>
FailedAt == {i \in 1..Len(ResultList) : ResultList[i].success = FALSE}
FailedEntry(k) == CHOOSE i \in FailedAt : Cardinality({j \in FailedAt : j < i}) = k - 1

\* C8: totalRecords is the number of records sent, successful and failed count
\* the results with success=true and success=false, errors holds one
\* {id, errors} per failed result in adapter order, a single result counts as
\* an array of one, and successful + failed is the number of results.
C8_SummaryCountsResults ==
  aggPc = "done" =>
    /\ aggOut.totalRecords = Len(aggIn.records)
    /\ aggOut.successful = Cardinality({i \in 1..Len(ResultList) : ResultList[i].success = TRUE})
    /\ aggOut.failed = Cardinality(FailedAt)
    /\ aggOut.successful + aggOut.failed = Len(ResultList)
    /\ ~aggIn.result.isArray => aggOut.successful + aggOut.failed = 1
    /\ Len(aggOut.errors) = Cardinality(FailedAt)
    /\ \A k \in 1..Len(aggOut.errors) :
         aggOut.errors[k] = [id |-> ResultList[FailedEntry(k)].id,
                             errors |-> ResultList[FailedEntry(k)].errors]

\* The update of three records with two successes and one failure, and a
\* single failed result that is no array.
C8_Witness ==
  /\ aggPc = "done"
  /\ Len(aggIn.records) = 3
  /\ aggIn.result = ArrayOf(<<Saved("001x"), Failed("003x", "DUPLICATE_VALUE"), Saved("002x")>>)
  /\ aggOut = [totalRecords |-> 3, successful |-> 2, failed |-> 1,
               errors |-> <<[id |-> "003x", errors |-> <<"DUPLICATE_VALUE">>]>>]

\* ------------------------------------------------------- request helpers
Protected == {"sessionInfo", "objects", "fields", "upload"}

\* Slot r takes a new request in this step.
Arrives(r) == Free(r) /\ req'[r] # req[r]

\* The request of slot r is answered in this step.
Answered(r) == req[r].pc # "done" /\ req'[r].pc = "done"

\* An upload whose handler has not answered yet.
InFlightUpload(r) ==
  /\ req[r].route = "upload"
  /\ req[r].pc \in {"received", "validated", "parsed", "dispatched"}

\* The adapter record calls of a request.
RecordCallsOf(q) == SelectSeq(q.calls, IsRecordCall)

\* The response of multer's file filter rejecting the file part.
FilterRejected(q) ==
  /\ q.route = "upload"
  /\ q.file = NoFile
  /\ q.res.status = 500
  /\ q.res.error = OnlyCsvAllowed

\* ------------------------------------------------------------------- C1
\* C1: when an upload request is answered, whatever the status, the file
\* staged for it no longer exists.
C1_StagedFileGoneWhenAnswered ==
  [][\A r \in Reqs :
       (req[r].route = "upload" /\ req[r].file # NoFile /\ Answered(r))
         => req[r].file \notin disk']_vars

\* ------------------------------------------------------------------- C2
\* C2 as stated: a protected request made while the session holds no
\* credentials is answered 401 and makes no adapter call.
C2_UnauthenticatedGets401 ==
  \A r \in Reqs :
    (req[r].route \in Protected /\ req[r].session = Unset /\ req[r].pc # "received")
      => /\ req[r].pc = "done"
         /\ req[r].res.status = 401
         /\ req[r].calls = <<>>

\* C2 amended: a protected request made while the session holds no
\* credentials makes no adapter call; its handler answers 401, and an upload
\* whose file part multer's file filter refuses never reaches the handler and
\* is answered 500.
C2_UnauthenticatedIsRejected ==
  \A r \in Reqs :
    (req[r].route \in Protected /\ req[r].session = Unset /\ req[r].pc # "received")
      => /\ req[r].pc = "done"
         /\ req[r].res.status = 401 \/ FilterRejected(req[r])
         /\ req[r].calls = <<>>

\* Unauthenticated requests to the schema and the upload routes were answered
\* 401, the upload with a staged file, after the session had been used.
C2_Witness ==
  \E r1, r2 \in Reqs :
    /\ req[r1].route = "objects" /\ req[r1].session = Unset
    /\ req[r1].pc = "done" /\ req[r1].res.status = 401 /\ req[r1].calls = <<>>
    /\ req[r2].route = "upload" /\ req[r2].session = Unset /\ req[r2].file # NoFile
    /\ req[r2].pc = "done" /\ req[r2].res.status = 401 /\ req[r2].calls = <<>>

\* ------------------------------------------------------------------- C3
\* A logout of session s was answered and the session holds no credentials.
LoggedOut(s) ==
  /\ store[s] = Unset
  /\ \E r \in Reqs : req[r].route = "logout" /\ req[r].sid = s /\ req[r].pc = "done"

\* C3 as stated: to a request received after logout, before the next
\* successful authentication, status reports authenticated=false and every
\* protected route answers 401.
C3_ProtectedGets401AfterLogout ==
  \A s \in Sessions : \A r \in Reqs :
    (/\ LoggedOut(s)
     /\ req[r].sid = s /\ req[r].session = Unset /\ req[r].pc = "done")
      => /\ req[r].route = "status" => ~req[r].res.authenticated
         /\ req[r].route \in Protected => req[r].res.status = 401

\* C3 amended: logout leaves the session without credentials, whichever
\* method created it; the session stays so until an OAuth callback or a
\* session-token authentication on it succeeds; a request received while it is
\* so sees no credentials: status reports authenticated=false and the handler
\* of a protected route answers 401; an upload whose file part multer's file
\* filter refuses never reaches the handler and is answered 500.
C3_LoggedOutUntilAuthenticated ==
  [][\A s \in Sessions :
       /\ \A r \in Reqs :
            (Free(r) /\ req'[r].route = "logout" /\ req'[r].sid = s /\ req'[r] # req[r])
              => store'[s] = Unset
       /\ (store[s] = Unset /\ store'[s] # Unset)
            => \E r \in Reqs :
                 /\ req[r].sid = s /\ req[r].pc = "awaiting" /\ Answered(r)
                 /\ req'[r].res.error = ""
                 /\ \/ req[r].route = "oauth" /\ store'[s].authMethod = "oauth"
                    \/ req[r].route = "authSession" /\ store'[s].authMethod = "session"
       /\ \A r \in Reqs :
            (Arrives(r) /\ req'[r].sid = s /\ store[s] = Unset)
              => /\ req'[r].session = Unset
                 /\ req'[r].route = "status"
                      => req'[r].pc = "done" /\ ~req'[r].res.authenticated
                 /\ req'[r].route \in {"sessionInfo", "objects", "fields"}
                      => req'[r].pc = "done" /\ req'[r].res.status = 401
                 /\ req'[r].route = "upload"
                      => req'[r].pc = "received" \/ FilterRejected(req'[r])
       /\ \A r \in Reqs :
            (/\ req[r].route = "upload" /\ req[r].pc = "received"
             /\ req[r].session = Unset /\ req'[r] # req[r])
              => req'[r].pc = "done" /\ req'[r].res.status = 401]_vars

\* A session created by session token was logged out; a status request and an
\* upload received afterwards were answered unauthenticated.
C3_Witness ==
  \E s \in Sessions : \E r1, r2 \in Reqs :
    /\ store[s] = Unset
    /\ req[r1].route = "status" /\ req[r1].sid = s /\ req[r1].pc = "done"
    /\ req[r1].session = Unset /\ ~req[r1].res.authenticated
    /\ req[r2].route = "logout" /\ req[r2].sid = s /\ req[r2].pc = "done"
    /\ req[r2].session.authMethod = "session"

\* ------------------------------------------------------------------- C4
\* C4: two uploads in flight at the same time never share a staged path.
C4_StagedPathsDistinct ==
  \A r1, r2 \in Reqs :
    (r1 # r2 /\ InFlightUpload(r1) /\ InFlightUpload(r2) /\ req[r1].file # NoFile)
      => req[r1].file # req[r2].file

\* ------------------------------------------------------------------- C5
\* C5: POST /api/auth/session with sessionId or instanceUrl absent or empty
\* is answered 400 and makes no adapter call.
C5_MissingFieldsGet400 ==
  \A r \in Reqs :
    (/\ req[r].route = "authSession"
     /\ \/ req[r].body.sessionId \in {Absent, ""}
        \/ req[r].body.instanceUrl \in {Absent, ""})
      => /\ req[r].pc = "done"
         /\ req[r].res.status = 400
         /\ req[r].calls = <<>>

\* A session id came with an empty instance URL, and was answered 400.
C5_Witness ==
  \E r \in Reqs :
    /\ req[r].route = "authSession"
    /\ req[r].body.sessionId = "sid-1" /\ req[r].body.instanceUrl = ""
    /\ req[r].pc = "done" /\ req[r].res.status = 400 /\ req[r].calls = <<>>

\* ------------------------------------------------------------------- C6
\* C6: an authenticated upload with operation=upsert and no externalIdField
\* ends in an error response and makes no adapter record call.
C6_UpsertNeedsExternalId ==
  \A r \in Reqs :
    (/\ req[r].route = "upload"
     /\ req[r].body.operation = "upsert"
     /\ req[r].body.externalIdField \in {Absent, ""})
      => /\ req[r].session # Unset
         /\ req[r].pc = "done"
         /\ req[r].res.status >= 400
         /\ req[r].res.error # ""
         /\ RecordCallsOf(req[r]) = <<>>

\* An upsert without externalIdField was answered 500 after parsing a batch.
C6_Witness ==
  \E r \in Reqs :
    /\ req[r].route = "upload" /\ req[r].session # Unset
    /\ req[r].body.operation = "upsert" /\ req[r].body.externalIdField = Absent
    /\ Len(req[r].records) > 0
    /\ req[r].pc = "done" /\ req[r].res.status = 500 /\ req[r].calls = <<>>

\* ------------------------------------------------------------------- C9
\* C9: when the identity check fails the response is 401 with the fixed
\* message: two failed requests have the same response whatever the adapter's
\* errors were.
C9_FailureResponseIsFixed ==
  \A r1, r2 \in Reqs :
    (/\ req[r1].route = "authSession" /\ req[r1].thrown # ""
     /\ req[r2].route = "authSession" /\ req[r2].thrown # "")
      => /\ req[r1].res.status = 401
         /\ req[r1].res.error = InvalidSession
         /\ req[r1].res = req[r2].res

\* Two identity checks failed with different adapter errors.
C9_Witness ==
  \E r1, r2 \in Reqs :
    /\ req[r1].route = "authSession" /\ req[r1].pc = "done"
    /\ req[r2].route = "authSession" /\ req[r2].pc = "done"
    /\ req[r1].thrown # "" /\ req[r2].thrown # ""
    /\ req[r1].thrown # req[r2].thrown

\* ------------------------------------------------------------------ C10
\* The steps an upload request takes.
UploadSteps ==
  {<<"received", "validated">>, <<"validated", "parsed">>, <<"parsed", "dispatched">>,
   <<"received", "done">>, <<"validated", "done">>, <<"parsed", "done">>,
   <<"dispatched", "done">>}

\* C10: an upload goes Received, Validated, Parsed, Dispatched, then
\* Succeeded or Failed, leaving for Failed from any step, without skipping or
\* repeating one; the adapter record call is made in the step to Dispatched,
\* once, for a request that passed the auth and file checks and parsed a
\* non-empty batch; an answered request takes no further step.
C10_UploadStateMachine ==
  /\ [][\A r \in Reqs :
          /\ (req[r].route = "upload" /\ ~Free(r) /\ req'[r] # req[r])
               => /\ <<req[r].pc, req'[r].pc>> \in UploadSteps
                  /\ req'[r].route = "upload"
                  /\ req'[r].calls # req[r].calls => req'[r].pc = "dispatched"
          /\ (/\ req[r].route = "upload" /\ req[r].pc = "done"
              /\ req'[r].route = "upload" /\ req'[r] # req[r])
               => /\ req'[r].pc \in {"received", "done"}
                  /\ req'[r].calls = <<>>
                  /\ req'[r].records = <<>>]_vars
  /\ [](\A r \in Reqs :
          req[r].route = "upload" =>
            /\ Len(req[r].calls) <= 1
            /\ RecordCallsOf(req[r]) = req[r].calls
            /\ req[r].calls # <<>> =>
                 /\ req[r].pc \in {"dispatched", "done"}
                 /\ req[r].session # Unset
                 /\ req[r].file # NoFile
                 /\ Len(req[r].records) > 0
            /\ req[r].pc = "dispatched" => Len(req[r].calls) = 1)

\* An insert was dispatched once and succeeded; another upload failed at the
\* adapter and was not retried.
C10_Witness ==
  \E r1, r2 \in Reqs :
    /\ req[r1].route = "upload" /\ req[r1].pc = "done"
    /\ req[r1].res.status = 200 /\ req[r1].calls = <<"create">>
    /\ req[r2].route = "upload" /\ req[r2].pc = "done"
    /\ req[r2].res.status = 500 /\ req[r2].thrown \in AdapterErrors
    /\ Len(req[r2].calls) = 1
====
